---- MODULE Spec2Model ----
(***************************************************************************)
(* A model of TectonicsModeling (tectonics.js): the raster sub-models      *)
(* get_erosion, get_plate_map, get_asthenosphere_pressure and              *)
(* get_displacement.                                                       *)
(*                                                                         *)
(* Numbers.  The source computes with JavaScript Numbers.  The model       *)
(* computes with exact rationals extended with the three IEEE values the   *)
(* source relies on: +Infinity (x/0, x > 0), -Infinity and NaN (0/0).      *)
(* A value is a record [n, d]: n/d in lowest terms with d > 0 for a finite *)
(* value, [1,0] for +Infinity, [-1,0] for -Infinity, [0,0] for NaN.        *)
(* Rounding (binary64 intermediates, binary32 raster storage) and the sign *)
(* of zero are not modelled.  The rasters are Float32Array, so every       *)
(* initial raster value is a binary32 number (an integer or a dyadic       *)
(* fraction) and the sums the source compares with a threshold are exact.  *)
(***************************************************************************)
EXTENDS Integers, Sequences, FiniteSets, TLC

\* ------------------------------------------------------------------ bounds
NumCells == 2
MaxDisplacement == 2
MaxSealevel == 1
MaxQuantity == 1
TimestepUnit == 5
MaxSteps == 2
PlateCells == 4
MaxSegments == 2
MaxMinSegmentSize == 5
MaxIterations == 3

\* ------------------------------------------------------------------ state
VARIABLES
    displacement,               \* Float32Raster: per-cell displacement (input)
    sealevel,                   \* scalar (input)
    timestep,                   \* scalar (input)
    arrows,                     \* displacement.grid.arrows: sequence of <<from, to>>
    neighbor_count,             \* displacement.grid.neighbor_count
    top_crust,                  \* the reservoirs: [reservoir -> [cell -> value]]
    crust_delta,                \* the deltas get_erosion writes
    crust_scratch,              \* the outbound_*_fraction rasters
    water_height,               \* scratchpad raster
    outbound_height_transfer,   \* scratchpad raster
    phase,                      \* the driver's position: "idle" | "computed"
    steps,                      \* transport steps completed by the driver
    initial_total,              \* total mass of the four reservoirs at construction
    scratchpad,                 \* RasterStackBuffer.scratchpad: open scopes and its log
    average_difference,         \* get_weathering: what ScalarField.average_difference returned
    vector_field,               \* get_plate_map input: per-cell vector
    vf_arrows,                  \* vector_field.grid: sequence of <<from, to>>
    segment_num,                \* get_plate_map input (target_segment_count)
    min_segment_size,           \* get_plate_map input
    segments,                   \* Uint8Raster: the label field
    pm_pc,                      \* position in get_plate_map
    region_count,               \* image_segmentation: permanent regions so far
    seg_iter,                   \* image_segmentation: loop iterations so far
    passes,                     \* the flood-fill passes that became permanent
    plate_ids,                  \* Uint8Dataset.unique(segments)
    pp_i,                       \* loop index i of the post-processing loop
    density,                    \* Float32Raster: per-cell density (input)
    density_arrows,             \* density.grid.arrows
    pressure,                   \* get_asthenosphere_pressure: the output raster
    pressure_pass,              \* loop index i of the smoothing loop
    pressure_pc,                \* position in get_asthenosphere_pressure
    thickness,                  \* get_displacement input: per-cell thickness
    mantleDensity,              \* get_displacement input: scalar
    iso_displacement,           \* get_displacement: the caller's displacement raster
    iso_returned,               \* get_displacement: the container it returned
    iso_pc,                     \* position in get_displacement
    output_arg,                 \* the output parameter passed: "raster" | "undefined"
    pressure_returned           \* get_asthenosphere_pressure: the container it returned

erosion_vars == <<displacement, sealevel, timestep, arrows, neighbor_count,
                  top_crust, crust_delta, crust_scratch, water_height,
                  outbound_height_transfer, phase, steps, initial_total,
                  scratchpad, average_difference>>
plate_vars == <<vector_field, vf_arrows, segment_num, min_segment_size, segments,
                pm_pc, region_count, seg_iter, passes, plate_ids, pp_i>>
field_vars == <<density, density_arrows, pressure, pressure_pass, pressure_pc,
                thickness, mantleDensity, iso_displacement, iso_returned, iso_pc,
                output_arg, pressure_returned>>
vars == <<erosion_vars, plate_vars, field_vars>>

\* the cells of the grid the rasters of get_erosion live on
Cells == DOMAIN displacement
\* the grid the transport driver is constructed with
InitCells == 0 .. (NumCells - 1)
Reservoirs == {"sediment", "sedimentary", "metamorphic", "sial"}

\* ------------------------------------------------------------------ numbers
Abs(x) == IF x < 0 THEN -x ELSE x
Sign(x) == IF x > 0 THEN 1 ELSE IF x < 0 THEN -1 ELSE 0

RECURSIVE GCD(_, _)
GCD(a, b) == IF b = 0 THEN a ELSE GCD(b, a % b)

\* n/d as a value; d = 0 gives +Infinity, -Infinity or NaN by the sign of n
Norm(n, d) ==
    IF d = 0 THEN [n |-> Sign(n), d |-> 0]
    ELSE LET g == GCD(Abs(n), Abs(d))
             s == IF d < 0 THEN -1 ELSE 1
         IN  [n |-> s * (n \div g), d |-> s * (d \div g)]

R(x) == [n |-> x, d |-> 1]
Zero == R(0)
One == R(1)
NaN == [n |-> 0, d |-> 0]
IsNaN(a) == a.n = 0 /\ a.d = 0
IsFinite(a) == a.d # 0

\* the arithmetic reduces before it multiplies, to keep the integers small
Add(a, b) ==
    IF a.d = 0 \/ b.d = 0
    THEN (IF a.d = 0 /\ b.d = 0
          THEN (IF a = b THEN a ELSE NaN)
          ELSE (IF a.d = 0 THEN a ELSE b))
    ELSE LET g == GCD(a.d, b.d)
         IN  Norm(a.n * (b.d \div g) + b.n * (a.d \div g), (a.d \div g) * b.d)
Neg(a) == [n |-> -a.n, d |-> a.d]
Sub(a, b) == Add(a, Neg(b))
Mul(a, b) ==
    IF a.d = 0 \/ b.d = 0
    THEN Norm(Sign(a.n) * Sign(b.n), 0)
    ELSE LET g1 == GCD(Abs(a.n), b.d)
             g2 == GCD(Abs(b.n), a.d)
         IN  Norm((a.n \div g1) * (b.n \div g2), (a.d \div g2) * (b.d \div g1))
Recip(a) == IF a.n < 0 THEN [n |-> -a.d, d |-> -a.n] ELSE [n |-> a.d, d |-> a.n]
Div(a, b) == Mul(a, Recip(b))

\* comparisons are false when either side is NaN
Gt(a, b) ==
    /\ ~IsNaN(a)
    /\ ~IsNaN(b)
    /\ IF a.d = 0 \/ b.d = 0
       THEN (IF a.d = 0 /\ b.d = 0 THEN a.n > b.n
             ELSE IF a.d = 0 THEN a.n > 0 ELSE b.n < 0)
       ELSE LET g == GCD(a.d, b.d)
            IN  a.n * (b.d \div g) > b.n * (a.d \div g)
Lt(a, b) == Gt(b, a)
Geq(a, b) == ~IsNaN(a) /\ ~IsNaN(b) /\ ~Gt(b, a)
Leq(a, b) == Geq(b, a)

\* the stored value without its '|| 0'
OrZeroKeep(a) == a

\* x || 0 : NaN and 0 are falsy
OrZero(a) == IF a.n = 0 THEN Zero ELSE a

\* ------------------------------------------------------------------ mesh
\* Directed adjacency ("arrows") of a ring over cells 0..n-1: i -> i+1 (mod n)
\* for every cell, then the reverses.
RingArrows(n) ==
    [k \in 1 .. (2 * n) |->
        IF k <= n THEN <<k - 1, k % n>> ELSE <<(k - n) % n, k - n - 1>>]

\* A path 0 - 1 - ... - (n-1): i -> i+1, then the reverses.
PathArrows(n) ==
    [k \in 1 .. (2 * (n - 1)) |->
        IF k <= n - 1 THEN <<k - 1, k>> ELSE <<k - (n - 1), k - (n - 1) - 1>>]

\* neighbor_count[cell] is the number of arrows leaving the cell
NeighborCount(arr) ==
    [i \in Cells |-> Cardinality({k \in 1 .. Len(arr) : arr[k][1] = i})]

\* The meshes the model runs on: a ring, a path, and a path that leaves the
\* last cell without neighbours (a ring needs three cells).
Meshes ==
    {PathArrows(NumCells), PathArrows(NumCells - 1)}
        \cup (IF NumCells >= 3 THEN {RingArrows(NumCells)} ELSE {})

\* ------------------------------------------------------------------ field algebra
sub_scalar(a, s) == Sub(a, s)
max_scalar(a, s) == IF Gt(s, a) THEN s ELSE a
ZeroRaster == [i \in Cells |-> Zero]
\* Crust.reset
CrustReset == [r \in Reservoirs |-> ZeroRaster]

\* ------------------------------------------------------------------ get_erosion
precipitation == 780000
erosiveFactor == Norm(18, 100000000)

\* ArrowFlux without the downhill test: flux by the size of the difference
ArrowFluxBothWays(wh, arrow, dt) ==
    LET height_difference == Sub(wh[arrow[1]], wh[arrow[2]])
    IN  Mul(Mul(Mul(R(Abs(height_difference.n)), R(precipitation)), R(dt)),
            Mul(erosiveFactor, Norm(1, height_difference.d)))

\* ArrowFlux without the timestep factor
ArrowFluxNoTimestep(wh, arrow, dt) ==
    LET height_difference == Sub(wh[arrow[1]], wh[arrow[2]])
    IN  IF Gt(height_difference, Zero)
        THEN Mul(Mul(height_difference, R(precipitation)), erosiveFactor)
        ELSE Zero

\* ArrowFlux with the direction reversed: material leaves the lower cell
ArrowFluxUphill(wh, arrow, dt) ==
    LET height_difference == Sub(wh[arrow[2]], wh[arrow[1]])
    IN  IF Gt(height_difference, Zero)
        THEN Mul(Mul(Mul(height_difference, R(precipitation)), R(dt)), erosiveFactor)
        ELSE Zero

\* the outbound flux candidate of one arrow
ArrowFlux(wh, arrow, dt) ==
    LET height_difference == Sub(wh[arrow[1]], wh[arrow[2]])
    IN  IF Gt(height_difference, Zero)
        THEN Mul(Mul(Mul(height_difference, R(precipitation)), R(dt)), erosiveFactor)
        ELSE Zero

\* AccumulatePass that stops one arrow short of the end of the list
RECURSIVE AccumulatePassPartial(_, _, _, _)
AccumulatePassPartial(wh, arr, dt, k) ==
    IF k = 0 THEN ZeroRaster
    ELSE LET prev == AccumulatePassPartial(wh, arr, dt, k - 1)
             from == arr[k][1]
         IN  IF k = Len(arr) THEN prev
             ELSE [prev EXCEPT ![from] = Add(prev[from], ArrowFlux(wh, arr[k], dt))]

\* first loop over arrows: outbound_height_transfer after the first k arrows
RECURSIVE AccumulatePass(_, _, _, _)
AccumulatePass(wh, arr, dt, k) ==
    IF k = 0 THEN ZeroRaster
    ELSE LET prev == AccumulatePass(wh, arr, dt, k - 1)
             from == arr[k][1]
         IN  [prev EXCEPT ![from] = Add(prev[from], ArrowFlux(wh, arr[k], dt))]

\* fraction > 1 ? 1 : fraction < 0 ? 0 : fraction
Clamp01(fraction) ==
    IF Gt(fraction, One) THEN One
    ELSE IF Lt(fraction, Zero) THEN Zero
    ELSE fraction

\* the loop body over cells: the four stored fractions of cell i
CellFractions(crust, nc, i, oht_i) ==
    LET f1 == Clamp01(Div(crust["sediment"][i], oht_i))
        t1 == Mul(oht_i, Sub(One, f1))
        f2 == Clamp01(Div(crust["sedimentary"][i], t1))
        t2 == Mul(t1, Sub(One, f2))
        f3 == Clamp01(Div(crust["metamorphic"][i], t2))
        t3 == Mul(t2, Sub(One, f3))
        f4 == Clamp01(Div(crust["sial"][i], t3))
    IN  [sediment    |-> OrZero(Div(f1, R(nc[i]))),
         sedimentary |-> OrZero(Div(f2, R(nc[i]))),
         metamorphic |-> OrZero(Div(f3, R(nc[i]))),
         sial        |-> OrZero(Div(f4, R(nc[i])))]

FractionPass(crust, nc, oht) ==
    [r \in Reservoirs |-> [i \in Cells |-> CellFractions(crust, nc, i, oht[i])[r]]]

\* TransferArrow that forgets to credit the receiving cell
TransferArrowLossy(delta_r, frac_r, flux, from, to) ==
    [delta_r EXCEPT ![from] = Sub(delta_r[from], Mul(flux, frac_r[from]))]

\* the body of the second loop over arrows, for one reservoir's delta raster
TransferArrow(delta_r, frac_r, flux, from, to) ==
    LET transfer == Mul(flux, frac_r[from])
        d1 == [delta_r EXCEPT ![from] = Sub(delta_r[from], transfer)]
    IN  [d1 EXCEPT ![to] = Add(d1[to], transfer)]

\* second loop over arrows: crust_delta after the first k arrows
RECURSIVE TransferPass(_, _, _, _, _)
TransferPass(wh, arr, dt, frac, k) ==
    IF k = 0 THEN CrustReset
    ELSE LET prev == TransferPass(wh, arr, dt, frac, k - 1)
             flux == ArrowFlux(wh, arr[k], dt)
         IN  [r \in Reservoirs |->
                 TransferArrow(prev[r], frac[r], flux, arr[k][1], arr[k][2])]

\* RasterStackBuffer.scratchpad: named scopes opened by allocate and closed by
\* deallocate; rasters are taken inside the innermost open scope
ScratchpadInit ==
    [open |-> <<>>, taken |-> 0, allocations |-> 0, deallocations |-> 0, errors |-> {}]

InSeq(x, seq) == \E k \in 1 .. Len(seq) : seq[k] = x

allocate(sp, scope) ==
    [sp EXCEPT !.open = Append(@, scope),
               !.allocations = @ + 1,
               !.errors = IF InSeq(scope, sp.open) THEN @ \cup {"already open"} ELSE @]

getFloat32Raster(sp) ==
    [sp EXCEPT !.taken = @ + 1,
               !.errors = IF sp.open = <<>> THEN @ \cup {"no open scope"} ELSE @]

deallocate(sp, scope) ==
    IF sp.open # <<>> /\ sp.open[Len(sp.open)] = scope
    THEN [sp EXCEPT !.open = SubSeq(@, 1, Len(@) - 1),
                    !.taken = 0,
                    !.deallocations = @ + 1]
    ELSE [sp EXCEPT !.errors = @ \cup {"scope mismatch"}]

ScratchOp(sp, op) ==
    CASE op[1] = "allocate" -> allocate(sp, op[2])
      [] op[1] = "getFloat32Raster" -> getFloat32Raster(sp)
      [] op[1] = "deallocate" -> deallocate(sp, op[2])

RECURSIVE RunScratchpad(_, _, _)
RunScratchpad(sp, ops, k) ==
    IF k = 0 THEN sp ELSE ScratchOp(RunScratchpad(sp, ops, k - 1), ops[k])

\* get_erosion without its closing deallocate
ErosionScratchOpsLeaky ==
    << <<"allocate", "get_erosion">>,
       <<"getFloat32Raster", "water_height">>,
       <<"getFloat32Raster", "outbound_height_transfer">> >>

\* the scratchpad calls of get_erosion, in program order
ErosionScratchOps ==
    << <<"allocate", "get_erosion">>,
       <<"getFloat32Raster", "water_height">>,
       <<"getFloat32Raster", "outbound_height_transfer">>,
       <<"deallocate", "get_erosion">> >>

WaterHeight(disp, sl) ==
    [i \in Cells |-> max_scalar(sub_scalar(R(disp[i]), R(sl)), Zero)]

\* get_erosion that subtracts what it moves from the reservoirs themselves
GetErosionInPlace ==
    /\ phase = "idle"
    /\ steps < MaxSteps
    /\ LET wh == WaterHeight(displacement, sealevel)
           oht == AccumulatePass(wh, arrows, timestep, Len(arrows))
           frac == FractionPass(top_crust, neighbor_count, oht)
           delta == TransferPass(wh, arrows, timestep, frac, Len(arrows))
       IN  /\ water_height' = wh
           /\ outbound_height_transfer' = oht
           /\ crust_scratch' = frac
           /\ crust_delta' = CrustReset
           /\ top_crust' = [r \in Reservoirs |->
                               [i \in Cells |-> Add(top_crust[r][i], delta[r][i])]]
    /\ scratchpad' = RunScratchpad(scratchpad, ErosionScratchOps, Len(ErosionScratchOps))
    /\ phase' = "computed"
    /\ UNCHANGED <<displacement, sealevel, timestep, arrows, neighbor_count,
                   steps, initial_total, average_difference>>
    /\ UNCHANGED <<plate_vars, field_vars>>

GetErosion ==
    /\ phase = "idle"
    /\ steps < MaxSteps
    /\ LET wh == WaterHeight(displacement, sealevel)
           oht == AccumulatePass(wh, arrows, timestep, Len(arrows))
           frac == FractionPass(top_crust, neighbor_count, oht)
       IN  /\ water_height' = wh
           /\ outbound_height_transfer' = oht
           /\ crust_scratch' = frac
           /\ crust_delta' = TransferPass(wh, arrows, timestep, frac, Len(arrows))
    /\ scratchpad' = RunScratchpad(scratchpad, ErosionScratchOps, Len(ErosionScratchOps))
    /\ phase' = "computed"
    /\ UNCHANGED <<displacement, sealevel, timestep, arrows, neighbor_count,
                   top_crust, steps, initial_total, average_difference>>
    /\ UNCHANGED <<plate_vars, field_vars>>

\* the driver adds the deltas to the reservoirs after the call returns
ApplyDelta ==
    /\ phase = "computed"
    /\ top_crust' = [r \in Reservoirs |->
                        [i \in Cells |-> Add(top_crust[r][i], crust_delta[r][i])]]
    /\ phase' = "idle"
    /\ steps' = steps + 1
    /\ UNCHANGED <<displacement, sealevel, timestep, arrows, neighbor_count,
                   crust_delta, crust_scratch, water_height,
                   outbound_height_transfer, initial_total, scratchpad,
                   average_difference>>
    /\ UNCHANGED <<plate_vars, field_vars>>

RECURSIVE SumUpTo(_, _)
SumUpTo(raster, k) ==
    IF k < 0 THEN Zero ELSE Add(SumUpTo(raster, k - 1), raster[k])
Sum(raster) == SumUpTo(raster, Cardinality(DOMAIN raster) - 1)
Total(crust) ==
    Add(Add(Sum(crust["sediment"]), Sum(crust["sedimentary"])),
        Add(Sum(crust["metamorphic"]), Sum(crust["sial"])))

PCells == 0 .. (PlateCells - 1)
ZeroLabels == [c \in PCells |-> 0]

\* neither get_asthenosphere_pressure nor get_displacement has been called
FieldsIdle ==
    /\ density = <<>>
    /\ density_arrows = <<>>
    /\ pressure = <<>>
    /\ pressure_pass = 0
    /\ pressure_pc = "idle"
    /\ thickness = <<>>
    /\ mantleDensity = 1
    /\ iso_displacement = <<>>
    /\ iso_returned = "none"
    /\ iso_pc = "idle"
    /\ output_arg = "raster"
    /\ pressure_returned = "none"

\* get_plate_map has not been called
PlatesIdle ==
    /\ vector_field = [c \in PCells |-> <<0, 0>>]
    /\ vf_arrows = <<>>
    /\ segment_num = 1
    /\ min_segment_size = 1
    /\ segments = ZeroLabels
    /\ pm_pc = "idle"
    /\ region_count = 0
    /\ seg_iter = 0
    /\ passes = <<>>
    /\ plate_ids = <<>>
    /\ pp_i = 0

\* the inputs of a call of get_erosion with a timestep of the given set
ErosionInputs(timesteps) ==
    /\ displacement \in [InitCells -> 0 .. MaxDisplacement]
    /\ sealevel \in 0 .. MaxSealevel
    /\ timestep \in timesteps
    /\ arrows \in Meshes
    /\ neighbor_count = NeighborCount(arrows)
    /\ \E q \in [Reservoirs -> [Cells -> 0 .. MaxQuantity]] :
          top_crust = [r \in Reservoirs |-> [i \in Cells |-> R(q[r][i])]]
    /\ crust_delta = CrustReset
    /\ crust_scratch = CrustReset
    /\ water_height = ZeroRaster
    /\ outbound_height_transfer = ZeroRaster
    /\ average_difference = ZeroRaster
    /\ phase = "idle"
    /\ steps = 0
    /\ initial_total = Total(top_crust)
    /\ scratchpad = ScratchpadInit

Init ==
    /\ PlatesIdle
    /\ FieldsIdle
    /\ ErosionInputs({0, TimestepUnit})

Next == GetErosion \/ ApplyDelta

Spec == Init /\ [][Next]_vars

\* ------------------------------------------------------------------ erosion: derived quantities
NonNegativeCrust ==
    \A r \in Reservoirs : \A i \in Cells : Geq(top_crust[r][i], Zero)

OutboundArrows(i) == {k \in 1 .. Len(arrows) : arrows[k][1] = i}

\* what the transfer pass subtracts from delta_r[i], summed over i's arrows
RECURSIVE WithdrawalUpTo(_, _, _)
WithdrawalUpTo(r, i, k) ==
    IF k = 0 THEN Zero
    ELSE IF arrows[k][1] = i
         THEN Add(WithdrawalUpTo(r, i, k - 1),
                  Mul(ArrowFlux(water_height, arrows[k], timestep), crust_scratch[r][i]))
         ELSE WithdrawalUpTo(r, i, k - 1)
Withdrawal(r, i) == WithdrawalUpTo(r, i, Len(arrows))

SomeDeltaNonZero ==
    \E r \in Reservoirs : \E i \in Cells : crust_delta[r][i] # Zero

\* ------------------------------------------------------------------ claims C1 .. C6

\* C1: the deltas written by get_erosion sum to zero over all cells for each
\* reservoir, and the total mass of the four reservoirs stays at its initial
\* value after every transport step.
C1_Conservation ==
    /\ phase = "computed" => \A r \in Reservoirs : Sum(crust_delta[r]) = Zero
    /\ Total(top_crust) = initial_total
C1_Witness ==
    phase = "computed" /\ steps = 1 /\ SomeDeltaNonZero

\* C2: with non-negative reservoirs and timestep >= 0, reservoir + delta is
\* never negative after get_erosion.
C2_NonNegativity ==
    (phase = "computed" /\ NonNegativeCrust)
        => \A r \in Reservoirs : \A i \in Cells :
              Geq(Add(top_crust[r][i], crust_delta[r][i]), Zero)

\* C3: for every cell and reservoir, the amount withdrawn over all the cell's
\* outbound arrows is at most the quantity the cell holds.
C3_WithdrawalBounded ==
    (phase = "computed" /\ NonNegativeCrust)
        => \A r \in Reservoirs : \A i \in Cells :
              Leq(Withdrawal(r, i), top_crust[r][i])

\* C4: when sediment[i] covers the cell's total outbound flux candidate,
\* nothing is withdrawn from sedimentary, metamorphic or sial at cell i.
C4_PriorityOrder ==
    (phase = "computed" /\ NonNegativeCrust)
        => \A i \in Cells :
              Geq(top_crust["sediment"][i], outbound_height_transfer[i])
                  => \A r \in Reservoirs \ {"sediment"} : Withdrawal(r, i) = Zero

\* C5: an arrow with water_height[from] <= water_height[to] adds nothing to
\* outbound_height_transfer in the accumulation pass and changes no delta in
\* the transfer pass.
C5_DownhillOnly ==
    phase = "computed"
        => \A k \in 1 .. Len(arrows) :
              Leq(water_height[arrows[k][1]], water_height[arrows[k][2]])
                  => /\ AccumulatePass(water_height, arrows, timestep, k)
                          = AccumulatePass(water_height, arrows, timestep, k - 1)
                     /\ TransferPass(water_height, arrows, timestep, crust_scratch, k)
                          = TransferPass(water_height, arrows, timestep, crust_scratch, k - 1)
                     /\ crust_delta
                          = TransferPass(water_height, arrows, timestep, crust_scratch,
                                         Len(arrows))
C5_Witness ==
    /\ phase = "computed"
    /\ SomeDeltaNonZero
    /\ \E k \in 1 .. Len(arrows) :
          /\ Lt(water_height[arrows[k][1]], water_height[arrows[k][2]])
          /\ crust_scratch["sediment"][arrows[k][1]] # Zero

\* C6: get_erosion with timestep = 0 leaves every delta at zero.
C6_ZeroTimestep ==
    (phase = "computed" /\ timestep = 0) => crust_delta = CrustReset
C6_Witness ==
    /\ phase = "computed"
    /\ timestep = 0
    /\ \E k \in 1 .. Len(arrows) :
          /\ Gt(water_height[arrows[k][1]], water_height[arrows[k][2]])
          /\ crust_scratch["sial"][arrows[k][1]] # Zero
          /\ Gt(top_crust["sediment"][arrows[k][1]], Zero)

\* ------------------------------------------------------------------ get_plate_map: collaborators
\* the cells adjacent to c in a grid given by its arrows
Neighbors(arr, c) == {arr[k][2] : k \in {j \in 1 .. Len(arr) : arr[j][1] = c}}

\* the vectors a cell of vector_field may hold
Vectors == {<<0, 0>>, <<1, 0>>, <<2, 0>>, <<1, 1>>, <<0, 1>>, <<-1, 0>>}
Dot(a, b) == a[1] * b[1] + a[2] * b[2]
MagnitudeSquared(a) == Dot(a, a)

\* cosine similarity above the fixed threshold ThresholdNum / ThresholdDen;
\* the similarity of a zero vector is NaN, which is above nothing
ThresholdNum == 1
ThresholdDen == 2
Similar(a, b) ==
    /\ Dot(a, b) > 0
    /\ ThresholdDen * ThresholdDen * Dot(a, b) * Dot(a, b)
          > ThresholdNum * ThresholdNum * MagnitudeSquared(a) * MagnitudeSquared(b)

Unlabeled(segs) == {c \in PCells : segs[c] = 0}

\* step 1: the unlabeled cell with the largest vector, lowest index on a tie
Seed(segs) ==
    CHOOSE c \in Unlabeled(segs) :
        \A d \in Unlabeled(segs) :
            \/ MagnitudeSquared(vector_field[c]) > MagnitudeSquared(vector_field[d])
            \/ /\ MagnitudeSquared(vector_field[c]) = MagnitudeSquared(vector_field[d])
               /\ c <= d

\* step 2: breadth-first flood fill from the seed over the cells in free
RECURSIVE FloodFill(_, _, _)
FloodFill(region, seed, free) ==
    LET frontier == {c \in free \ region :
                        /\ Similar(vector_field[c], vector_field[seed])
                        /\ Neighbors(vf_arrows, c) \cap region # {}}
    IN  IF frontier = {} THEN region ELSE FloodFill(region \cup frontier, seed, free)

\* a Uint8Raster keeps the low eight bits
Uint8(x) == x % 256

\* (Uint8)RasterGraphics.fill_into_selection(field, value, selection, result)
fill_into_selection(field, value, selection) ==
    [c \in PCells |-> IF c \in selection THEN Uint8(value) ELSE field[c]]

\* NextLabel that hands out the same id every time
NextLabelReused(count) == 1

\* step 3: the next unused label
NextLabel(count) == count + 1

\* image_segmentation repeats while fewer than segment_num regions exist and
\* an unlabeled cell remains
LoopCondition == region_count < segment_num /\ Unlabeled(segments) # {}

\* Uint8Field.eq_scalar / ne_scalar as masks (sets of cells)
eq_scalar(field, value) == {c \in PCells : field[c] = value}
ne_scalar(field, value) == {c \in PCells : field[c] # value}

\* BinaryMorphology
difference(a, b) == a \ b
RECURSIVE dilation(_, _)
dilation(mask, radius) ==
    IF radius = 0 THEN mask
    ELSE dilation(mask \cup {c \in PCells : Neighbors(vf_arrows, c) \cap mask # {}},
                  radius - 1)
RECURSIVE erosion(_, _)
erosion(mask, radius) ==
    IF radius = 0 THEN mask
    ELSE erosion({c \in mask : Neighbors(vf_arrows, c) \subseteq mask}, radius - 1)
closing(mask, radius) == erosion(dilation(mask, radius), radius)

\* Uint8Dataset.unique: the distinct values, ascending
RECURSIVE Ascending(_)
Ascending(S) ==
    IF S = {} THEN <<>>
    ELSE LET m == CHOOSE x \in S : \A y \in S : x <= y
         IN  <<m>> \o Ascending(S \ {m})
unique(field) == Ascending({field[c] : c \in PCells})

\* ------------------------------------------------------------------ get_plate_map
MorphologyRadius == 5

\* the loop body without the difference with is_occupied
PostProcessLabelNoDifference(segs, plate_id) ==
    LET segment == eq_scalar(segs, plate_id)
        grown == closing(dilation(segment, MorphologyRadius), MorphologyRadius)
    IN  fill_into_selection(segs, plate_id, grown)

\* a loop body that redraws the label from its eroded mask
PostProcessLabelRedrawn(segs, plate_id) ==
    LET segment == eq_scalar(segs, plate_id)
    IN  fill_into_selection(fill_into_selection(segs, 0, segment),
                            plate_id, erosion(segment, 1))

\* the body of the per-label loop
PostProcessLabel(segs, plate_id) ==
    LET segment == eq_scalar(segs, plate_id)
        is_empty == eq_scalar(segs, 0)
        is_occupied == difference(ne_scalar(segs, plate_id), is_empty)
        dilated == dilation(segment, MorphologyRadius)
        closed == closing(dilated, MorphologyRadius)
        cleaned == difference(closed, is_occupied)
    IN  fill_into_selection(segs, plate_id, cleaned)

\* an iteration that makes every flood-filled region permanent
SegmentationIterationKeepAll ==
    /\ pm_pc = "segmenting"
    /\ LoopCondition
    /\ seg_iter < MaxIterations
    /\ LET seed == Seed(segments)
           region == FloodFill({seed}, seed, Unlabeled(segments))
           id == NextLabel(region_count)
       IN  /\ segments' = fill_into_selection(segments, id, region)
           /\ region_count' = region_count + 1
           /\ passes' = Append(passes, [id |-> id, region |-> region])
    /\ seg_iter' = seg_iter + 1
    /\ UNCHANGED <<vector_field, vf_arrows, segment_num, min_segment_size, pm_pc,
                   plate_ids, pp_i>>
    /\ UNCHANGED <<erosion_vars, field_vars>>

\* one iteration of image_segmentation: seed, flood fill, keep or discard
SegmentationIteration ==
    /\ pm_pc = "segmenting"
    /\ LoopCondition
    /\ seg_iter < MaxIterations
    /\ LET seed == Seed(segments)
           region == FloodFill({seed}, seed, Unlabeled(segments))
           id == NextLabel(region_count)
       IN  IF Cardinality(region) < min_segment_size
           THEN UNCHANGED <<segments, region_count, passes>>
           ELSE /\ segments' = fill_into_selection(segments, id, region)
                /\ region_count' = region_count + 1
                /\ passes' = Append(passes, [id |-> id, region |-> region])
    /\ seg_iter' = seg_iter + 1
    /\ UNCHANGED <<vector_field, vf_arrows, segment_num, min_segment_size, pm_pc,
                   plate_ids, pp_i>>
    /\ UNCHANGED <<erosion_vars, field_vars>>

\* image_segmentation returns; get_plate_map sets up step 2
SegmentationReturn ==
    /\ pm_pc = "segmenting"
    /\ ~LoopCondition
    /\ pm_pc' = "postprocessing"
    /\ plate_ids' = unique(segments)
    /\ pp_i' = 1
    /\ UNCHANGED <<vector_field, vf_arrows, segment_num, min_segment_size, segments,
                   region_count, seg_iter, passes>>
    /\ UNCHANGED <<erosion_vars, field_vars>>

\* the per-label loop running through plate_ids from its last element
PostProcessStepReversed ==
    /\ pm_pc = "postprocessing"
    /\ pp_i <= Len(plate_ids)
    /\ segments' = PostProcessLabel(segments, plate_ids[Len(plate_ids) + 1 - pp_i])
    /\ pp_i' = pp_i + 1
    /\ UNCHANGED <<vector_field, vf_arrows, segment_num, min_segment_size, pm_pc,
                   region_count, seg_iter, passes, plate_ids>>
    /\ UNCHANGED <<erosion_vars, field_vars>>

\* one iteration of the per-label loop
PostProcessStep ==
    /\ pm_pc = "postprocessing"
    /\ pp_i <= Len(plate_ids)
    /\ segments' = PostProcessLabel(segments, plate_ids[pp_i])
    /\ pp_i' = pp_i + 1
    /\ UNCHANGED <<vector_field, vf_arrows, segment_num, min_segment_size, pm_pc,
                   region_count, seg_iter, passes, plate_ids>>
    /\ UNCHANGED <<erosion_vars, field_vars>>

\* return segments
PlateMapReturn ==
    /\ pm_pc = "postprocessing"
    /\ pp_i > Len(plate_ids)
    /\ pm_pc' = "returned"
    /\ UNCHANGED <<vector_field, vf_arrows, segment_num, min_segment_size, segments,
                   region_count, seg_iter, passes, plate_ids, pp_i>>
    /\ UNCHANGED <<erosion_vars, field_vars>>

\* get_erosion is not running
ErosionIdle ==
    /\ displacement = [i \in InitCells |-> 0]
    /\ sealevel = 0
    /\ timestep = 0
    /\ arrows = <<>>
    /\ neighbor_count = [i \in Cells |-> 0]
    /\ top_crust = CrustReset
    /\ crust_delta = CrustReset
    /\ crust_scratch = CrustReset
    /\ water_height = ZeroRaster
    /\ outbound_height_transfer = ZeroRaster
    /\ average_difference = ZeroRaster
    /\ phase = "off"
    /\ steps = 0
    /\ initial_total = Zero
    /\ scratchpad = ScratchpadInit

PlateMeshes == {RingArrows(PlateCells), PathArrows(PlateCells)}

\* the inputs of a call of get_plate_map with parameters of the given sets
PlateInputs(segment_nums, min_segment_sizes) ==
    /\ vector_field \in [PCells -> Vectors]
    /\ vf_arrows \in PlateMeshes
    /\ segment_num \in segment_nums
    /\ min_segment_size \in min_segment_sizes
    /\ segments = ZeroLabels
    /\ pm_pc = "segmenting"
    /\ region_count = 0
    /\ seg_iter = 0
    /\ passes = <<>>
    /\ plate_ids = <<>>
    /\ pp_i = 0

InitPlates ==
    /\ ErosionIdle
    /\ FieldsIdle
    /\ PlateInputs(1 .. MaxSegments, 1 .. MaxMinSegmentSize)

NextPlates ==
    \/ SegmentationIteration
    \/ SegmentationReturn
    \/ PostProcessStep
    \/ PlateMapReturn

SpecPlates == InitPlates /\ [][NextPlates]_vars

\* ------------------------------------------------------------------ claims C7 .. C10
PassRegions == UNION {passes[p].region : p \in 1 .. Len(passes)}

\* C7: the seed/flood-fill/discard loop stops after finitely many iterations.
\* The loop is deterministic in (segments, region_count), so it stops only if
\* no iteration leaves both as they were: an iteration that does selects the
\* same seed and discards the same region again, forever.
C7_SegmentationProgress ==
    [][(pm_pc = "segmenting" /\ seg_iter' = seg_iter + 1)
          => <<segments, region_count>>' # <<segments, region_count>>]_vars

\* C8: while the per-label loop runs, a cell changes only from 0 to the label
\* being processed, and every cell labelled by a permanent flood-fill pass
\* keeps that label up to the returned plate map.
C8_NoOverwrite ==
    /\ [][pm_pc = "postprocessing"
            => \A c \in PCells :
                  segments'[c] # segments[c]
                      => /\ segments[c] = 0
                         /\ pp_i <= Len(plate_ids)
                         /\ segments'[c] = plate_ids[pp_i]]_vars
    /\ [](pm_pc \in {"postprocessing", "returned"}
            => \A p \in 1 .. Len(passes) :
                  \A c \in passes[p].region : segments[c] = passes[p].id)
C8_Witness ==
    /\ pm_pc = "returned"
    /\ Len(passes) >= 2
    /\ \E c \in PCells \ PassRegions : segments[c] # 0

UniformField ==
    \E v \in Vectors \ {<<0, 0>>} : \A c \in PCells : vector_field[c] = v

\* C9: on a uniform non-zero field over a connected mesh the segmentation
\* yields, after its first flood fill, one region covering all cells when
\* PlateCells >= min_segment_size and no region (all cells 0) otherwise.
C9_UniformField ==
    (UniformField /\ (seg_iter >= 1 \/ pm_pc # "segmenting"))
        => /\ pm_pc = "segmenting" => ~LoopCondition
           /\ IF PlateCells >= min_segment_size
              THEN /\ Len(passes) = 1
                   /\ passes[1].region = PCells
                   /\ pm_pc = "segmenting"
                        => \A c \in PCells : segments[c] = passes[1].id
              ELSE /\ Len(passes) = 0
                   /\ pm_pc = "segmenting" => segments = ZeroLabels

\* C10: every cell holds 0 or a positive id, and no id is assigned by two
\* flood-fill passes: the passes have distinct positive ids and disjoint
\* regions, and during the segmentation a cell carries the id of the pass
\* that filled it, or 0 when no pass did.
C10_LabelUniqueness ==
    /\ \A c \in PCells : segments[c] \in 0 .. 255
    /\ \A p \in 1 .. Len(passes) : passes[p].id > 0
    /\ \A p, q \in 1 .. Len(passes) :
          p # q => /\ passes[p].id # passes[q].id
                   /\ passes[p].region \cap passes[q].region = {}
    /\ pm_pc = "segmenting"
          => \A c \in PCells :
                IF c \in PassRegions
                THEN \E p \in 1 .. Len(passes) :
                        c \in passes[p].region /\ segments[c] = passes[p].id
                ELSE segments[c] = 0
C10_Witness ==
    /\ pm_pc = "segmenting"
    /\ Len(passes) = 2
    /\ Unlabeled(segments) # {}
    /\ \A c \in passes[1].region :
          Neighbors(vf_arrows, c) \cap passes[2].region = {}

\* ------------------------------------------------------------------ get_asthenosphere_pressure
MaxDensity == 2
smoothing_iterations == 15

\* ScalarField.diffusion_by_constant: every cell moves towards the average of
\* its neighbours by constant times its difference from that average
RECURSIVE LaplacianSum(_, _, _, _)
LaplacianSum(field, arr, c, k) ==
    IF k = 0 THEN Zero
    ELSE IF arr[k][1] = c
         THEN Add(LaplacianSum(field, arr, c, k - 1),
                  Sub(field[arr[k][2]], field[arr[k][1]]))
         ELSE LaplacianSum(field, arr, c, k - 1)

diffusion_by_constant(field, arr, constant) ==
    [c \in DOMAIN field |->
        Add(field[c],
            Mul(constant,
                Div(LaplacianSum(field, arr, c, Len(arr)),
                    R(Cardinality({k \in 1 .. Len(arr) : arr[k][1] = c})))))]

\* a pass that moves every cell twice the way to its neighbours' average
PressurePassOvershoot(p, arr) == diffusion_by_constant(p, arr, R(2))

\* diffuse(pressure, 1, pressure, scratch)
PressurePass(p, arr) == diffusion_by_constant(p, arr, One)

\* pressure = pressure || Float32Raster(density.grid)
PressureContainer(arg) == IF arg = "undefined" THEN "new raster" ELSE "pressure argument"

\* Float32Raster.copy(density, pressure)
AsthenospherePressureCopy ==
    /\ pressure_pc = "called"
    /\ pressure' = density
    /\ pressure_pass' = 0
    /\ pressure_pc' = "diffusing"
    /\ UNCHANGED <<density, density_arrows, thickness, mantleDensity,
                   iso_displacement, iso_returned, iso_pc, output_arg,
                   pressure_returned>>
    /\ UNCHANGED <<erosion_vars, plate_vars>>

\* one iteration of the smoothing loop
AsthenospherePressurePass ==
    /\ pressure_pc = "diffusing"
    /\ pressure_pass < smoothing_iterations
    /\ pressure' = PressurePass(pressure, density_arrows)
    /\ pressure_pass' = pressure_pass + 1
    /\ UNCHANGED <<density, density_arrows, pressure_pc, thickness, mantleDensity,
                   iso_displacement, iso_returned, iso_pc, output_arg,
                   pressure_returned>>
    /\ UNCHANGED <<erosion_vars, plate_vars>>

AsthenospherePressureReturn ==
    /\ pressure_pc = "diffusing"
    /\ pressure_pass >= smoothing_iterations
    /\ pressure_pc' = "returned"
    /\ pressure_returned' = PressureContainer(output_arg)
    /\ UNCHANGED <<density, density_arrows, pressure, pressure_pass, thickness,
                   mantleDensity, iso_displacement, iso_returned, iso_pc,
                   output_arg>>
    /\ UNCHANGED <<erosion_vars, plate_vars>>

IsostasyIdle ==
    /\ thickness = <<>>
    /\ mantleDensity = 1
    /\ iso_displacement = <<>>
    /\ iso_returned = "none"
    /\ iso_pc = "idle"

InitPressure ==
    /\ ErosionIdle
    /\ PlatesIdle
    /\ IsostasyIdle
    /\ \E q \in [PCells -> 0 .. MaxDensity] : density = [c \in PCells |-> R(q[c])]
    /\ density_arrows \in PlateMeshes
    /\ pressure = [c \in PCells |-> Zero]
    /\ pressure_pass = 0
    /\ pressure_pc = "called"
    /\ output_arg = "raster"
    /\ pressure_returned = "none"

NextPressure ==
    \/ AsthenospherePressureCopy
    \/ AsthenospherePressurePass
    \/ AsthenospherePressureReturn

SpecPressure == InitPressure /\ [][NextPressure]_vars

RECURSIVE MinUpTo(_, _)
MinUpTo(raster, k) ==
    IF k = 0 THEN raster[0]
    ELSE LET m == MinUpTo(raster, k - 1) IN IF Lt(raster[k], m) THEN raster[k] ELSE m
RECURSIVE MaxUpTo(_, _)
MaxUpTo(raster, k) ==
    IF k = 0 THEN raster[0]
    ELSE LET m == MaxUpTo(raster, k - 1) IN IF Gt(raster[k], m) THEN raster[k] ELSE m
MinOf(raster) == MinUpTo(raster, Cardinality(DOMAIN raster) - 1)
MaxOf(raster) == MaxUpTo(raster, Cardinality(DOMAIN raster) - 1)

\* C11: after the copy and after every smoothing pass, every cell of pressure
\* lies between the smallest and the largest value of the input density
C11_DiffusionBounded ==
    pressure_pc \in {"diffusing", "returned"}
        => \A c \in DOMAIN pressure :
              /\ Leq(MinOf(density), pressure[c])
              /\ Leq(pressure[c], MaxOf(density))

\* all passes have run on a non-uniform density and the result differs from it
C11_Witness ==
    /\ pressure_pc = "returned"
    /\ pressure_pass = smoothing_iterations
    /\ pressure # density
    /\ MinOf(density) # MaxOf(density)

\* ------------------------------------------------------------------ get_displacement
MaxThickness == 2
MaxMantleDensity == 3

\* the loop body with the mantle density in place of its inverse
DisplacementOfNoInverse(thickness_i, density_i, mantle) ==
    Sub(thickness_i, Mul(Mul(thickness_i, density_i), mantle))

\* thickness_i - thickness_i * density[i] * inverse_mantle_density
DisplacementOf(thickness_i, density_i, mantle) ==
    Sub(thickness_i, Mul(Mul(thickness_i, density_i), Div(One, mantle)))

\* displacement.length of an undefined displacement throws a TypeError before
\* the loop is entered
GetDisplacement ==
    /\ iso_pc = "called"
    /\ IF output_arg = "undefined"
       THEN /\ iso_pc' = "threw"
            /\ UNCHANGED <<iso_displacement, iso_returned>>
       ELSE /\ iso_displacement' =
                  [i \in DOMAIN iso_displacement |->
                      DisplacementOf(thickness[i], density[i], R(mantleDensity))]
            /\ iso_returned' = "displacement"
            /\ iso_pc' = "returned"
    /\ UNCHANGED <<density, density_arrows, pressure, pressure_pass, pressure_pc,
                   thickness, mantleDensity, output_arg, pressure_returned>>
    /\ UNCHANGED <<erosion_vars, plate_vars>>

\* the caller reads the result and calls again with the same rasters
DisplacementConsumed ==
    /\ iso_pc = "returned"
    /\ iso_pc' = "called"
    /\ iso_returned' = "none"
    /\ UNCHANGED <<density, density_arrows, pressure, pressure_pass, pressure_pc,
                   thickness, mantleDensity, iso_displacement, output_arg,
                   pressure_returned>>
    /\ UNCHANGED <<erosion_vars, plate_vars>>

PressureIdle ==
    /\ density_arrows = <<>>
    /\ pressure = <<>>
    /\ pressure_pass = 0
    /\ pressure_pc = "idle"
    /\ pressure_returned = "none"

\* the inputs of a call of get_displacement with the given mantle densities
IsostasyCalled(mantles) ==
    /\ \E q \in [InitCells -> 0 .. MaxThickness] :
          thickness = [i \in InitCells |-> R(q[i])]
    /\ \E q \in [InitCells -> 0 .. MaxDensity] :
          density = [i \in InitCells |-> R(q[i])]
    /\ mantleDensity \in mantles
    /\ \E q \in [InitCells -> {0, MaxThickness}] :
          iso_displacement = [i \in InitCells |-> R(q[i])]
    /\ iso_returned = "none"
    /\ iso_pc = "called"
    /\ output_arg = "raster"

InitIsostasy ==
    /\ ErosionIdle
    /\ PlatesIdle
    /\ PressureIdle
    /\ IsostasyCalled(1 .. MaxMantleDensity)

NextIsostasy == GetDisplacement \/ DisplacementConsumed

SpecIsostasy == InitIsostasy /\ [][NextIsostasy]_vars

\* C12: when get_displacement returns, every cell of displacement holds
\* thickness * (1 - density / mantle_density) of the same cell, the returned
\* container is the displacement raster passed in, and the call changes
\* neither thickness nor density
C12_IsostasyFormula ==
    /\ [](iso_pc = "returned"
            => /\ \A i \in DOMAIN iso_displacement :
                     iso_displacement[i] =
                        Mul(thickness[i],
                            Sub(One, Div(density[i], R(mantleDensity))))
               /\ iso_returned = "displacement")
    /\ [][thickness' = thickness /\ density' = density]_vars

\* a returned call whose result differs from the stale contents and from thickness
C12_Witness ==
    /\ iso_pc = "returned"
    /\ mantleDensity > 1
    /\ \E i \in DOMAIN iso_displacement :
          /\ Gt(iso_displacement[i], Zero)
          /\ iso_displacement[i] # thickness[i]
          /\ density[i] # Zero

\* ------------------------------------------------------------------ calls outside the parameter contracts
\* one call of one routine, with parameters on both sides of its contract
InitContract ==
    \/ /\ PlatesIdle
       /\ FieldsIdle
       /\ ErosionInputs({-TimestepUnit})
    \/ /\ ErosionIdle
       /\ PlatesIdle
       /\ PressureIdle
       /\ IsostasyCalled(-1 .. 1)
    \/ /\ ErosionIdle
       /\ FieldsIdle
       /\ PlateInputs(-1 .. 1, -1 .. 1)

NextContract ==
    \/ GetErosion
    \/ ApplyDelta
    \/ GetDisplacement
    \/ DisplacementConsumed
    \/ SegmentationIteration
    \/ SegmentationReturn
    \/ PostProcessStep
    \/ PlateMapReturn

SpecContract == InitContract /\ [][NextContract]_vars

\* C13: a call outside its parameter contract never returns normally:
\* get_erosion with a negative timestep does not reach the state in which its
\* deltas are written, get_displacement with a non-positive mantle density
\* does not return a displacement, and get_plate_map with a non-positive
\* segment_num or min_segment_size does not get past the segmentation
C13_FailFast ==
    /\ timestep < 0 => phase # "computed"
    /\ mantleDensity <= 0 => iso_pc # "returned"
    /\ (segment_num <= 0 \/ min_segment_size <= 0)
          => pm_pc \notin {"postprocessing", "returned"}

\* ------------------------------------------------------------------ claims C14 .. C20
\* C14: whenever get_erosion is not running, its scratch scope is closed; it
\* was opened once per call, before a raster was taken and never while already
\* open, and closed once per call by the matching deallocate
C14_ScratchScope ==
    /\ scratchpad.errors = {}
    /\ scratchpad.open = <<>>
    /\ scratchpad.taken = 0
    /\ scratchpad.allocations = steps + (IF phase = "computed" THEN 1 ELSE 0)
    /\ scratchpad.deallocations = scratchpad.allocations

\* a second call has returned after the first one's deltas were applied
C14_Witness ==
    /\ phase = "computed"
    /\ steps = 1
    /\ scratchpad.allocations = 2
    /\ scratchpad.deallocations = 2

\* the end-to-end example of the transport engine: a ring of four cells
ExampleHeights == <<3, 2, 1, 0>>
ExampleSediment == <<0, 0, 0, 10>>
ExampleCells == 0 .. (Len(ExampleHeights) - 1)
ExampleTimesteps == {1, TimestepUnit}

\* a raster holding the elements of a tuple
RasterOf(tuple) == [i \in 0 .. (Len(tuple) - 1) |-> tuple[i + 1]]

\* the tuple moved round the ring by s cells
Rotated(tuple, s) ==
    [k \in 1 .. Len(tuple) |-> tuple[((k - 1 + s) % Len(tuple)) + 1]]

\* the example and its neighbourhood: any heights of the example's range, the
\* example's sediment load on any one cell
InitExample ==
    /\ PlatesIdle
    /\ FieldsIdle
    /\ displacement \in [ExampleCells -> 0 .. (Len(ExampleHeights) - 1)]
    /\ sealevel = 0
    /\ timestep \in ExampleTimesteps
    /\ arrows = RingArrows(Len(ExampleHeights))
    /\ neighbor_count = NeighborCount(arrows)
    /\ \E s \in ExampleCells :
          top_crust = [r \in Reservoirs |->
                          [i \in ExampleCells |->
                              IF r = "sediment"
                              THEN R(RasterOf(Rotated(ExampleSediment, s))[i])
                              ELSE Zero]]
    /\ crust_delta = CrustReset
    /\ crust_scratch = CrustReset
    /\ water_height = ZeroRaster
    /\ outbound_height_transfer = ZeroRaster
    /\ average_difference = ZeroRaster
    /\ phase = "idle"
    /\ steps = 0
    /\ initial_total = Total(top_crust)
    /\ scratchpad = ScratchpadInit

SpecExample == InitExample /\ [][Next]_vars

\* get_erosion has returned from its first call on the example's inputs
ExampleComputed ==
    /\ phase = "computed"
    /\ steps = 0
    /\ displacement = RasterOf(ExampleHeights)
    /\ timestep = 1
    /\ top_crust["sediment"] = [i \in ExampleCells |-> R(RasterOf(ExampleSediment)[i])]

\* a cell has an outbound flux candidate exactly if a neighbour lies lower
FluxOnlyDownhill ==
    \A i \in Cells :
        Gt(outbound_height_transfer[i], Zero)
            <=> \E k \in OutboundArrows(i) :
                   Gt(water_height[i], water_height[arrows[k][2]])

\* C15 as stated: on the example, flux occurs only on downhill edges, and the
\* mass withdrawn from cell 3's sediment reappears as a positive sediment
\* delta on cells 2 and 0
C15_ExampleAsStated ==
    ExampleComputed
        => /\ FluxOnlyDownhill
           /\ Gt(crust_delta["sediment"][2], Zero)
           /\ Gt(crust_delta["sediment"][0], Zero)
           /\ Add(crust_delta["sediment"][2], crust_delta["sediment"][0])
                 = Neg(crust_delta["sediment"][3])

\* C15: on the example, flux occurs only on downhill edges: cells 0, 1 and 2
\* have the outbound candidates 0.5616, 0.1404 and 0.1404, cell 3, the lowest,
\* has none; nothing is withdrawn from cell 3's sediment and every delta is zero
C15_ExampleDownhill ==
    ExampleComputed
        => /\ FluxOnlyDownhill
           /\ outbound_height_transfer =
                 RasterOf(<<Norm(5616, 10000), Norm(1404, 10000),
                            Norm(1404, 10000), Zero>>)
           /\ Withdrawal("sediment", 3) = Zero
           /\ crust_delta = CrustReset

C15_Witness ==
    /\ ExampleComputed
    /\ Gt(outbound_height_transfer[0], outbound_height_transfer[1])
    /\ top_crust["sediment"][3] = R(10)

\* C16: after get_erosion, a cell without neighbours holds the stored fraction
\* 0 for each of the four reservoirs, whatever its reservoirs hold
C16_ZeroNeighbors ==
    phase = "computed"
        => \A i \in Cells :
              neighbor_count[i] = 0
                  => \A r \in Reservoirs : crust_scratch[r][i] = Zero

AllZero(i) == \A r \in Reservoirs : top_crust[r][i] = Zero

\* C17: after get_erosion, a cell whose four reservoirs are all zero holds four
\* zero fractions, whether its outbound flux candidate is positive or zero,
\* and no fraction and no delta of any cell is NaN
C17_AllZeroReservoirs ==
    phase = "computed"
        => /\ \A i \in Cells :
                 AllZero(i) => \A r \in Reservoirs : crust_scratch[r][i] = Zero
           /\ \A r \in Reservoirs : \A i \in Cells :
                 /\ ~IsNaN(crust_scratch[r][i])
                 /\ ~IsNaN(crust_delta[r][i])

\* one empty cell has a positive candidate, another cell has candidate 0, an
\* empty first reservoir (0/0) and a later reservoir that holds material
C17_Witness ==
    /\ phase = "computed"
    /\ \E i \in Cells : AllZero(i) /\ Gt(outbound_height_transfer[i], Zero)
    /\ \E i \in Cells :
          /\ outbound_height_transfer[i] = Zero
          /\ top_crust["sediment"][i] = Zero
          /\ Gt(top_crust["sial"][i], Zero)

\* ------------------------------------------------------------------ get_erosion on reordered arrows
OrderCells == 3

\* every order in which the grid may list the arrows
ArrowOrders(arr) ==
    {[k \in 1 .. Len(arr) |-> arr[p[k]]] : p \in Permutations(1 .. Len(arr))}

InitOrder ==
    /\ PlatesIdle
    /\ FieldsIdle
    /\ displacement \in [0 .. (OrderCells - 1) -> 0 .. MaxDisplacement]
    /\ sealevel = 0
    /\ timestep = TimestepUnit
    /\ arrows \in ArrowOrders(PathArrows(OrderCells))
    /\ neighbor_count = NeighborCount(arrows)
    /\ \E q \in [Cells -> 0 .. MaxQuantity] :
          top_crust = [r \in Reservoirs |->
                          [i \in Cells |->
                              IF r = "sediment" THEN R(q[i])
                              ELSE IF r = "sial" THEN R(MaxQuantity)
                              ELSE Zero]]
    /\ crust_delta = CrustReset
    /\ crust_scratch = CrustReset
    /\ water_height = ZeroRaster
    /\ outbound_height_transfer = ZeroRaster
    /\ average_difference = ZeroRaster
    /\ phase = "idle"
    /\ steps = 0
    /\ initial_total = Total(top_crust)
    /\ scratchpad = ScratchpadInit

SpecOrder == InitOrder /\ [][Next]_vars

\* the deltas get_erosion writes when the grid lists its arrows in the order arr
ErosionDeltas(arr) ==
    LET wh == WaterHeight(displacement, sealevel)
        oht == AccumulatePass(wh, arr, timestep, Len(arr))
        frac == FractionPass(top_crust, neighbor_count, oht)
    IN  TransferPass(wh, arr, timestep, frac, Len(arr))

\* C18: the fractions get_erosion leaves behind are those of the complete
\* outbound candidates, and the deltas it writes for any order of the arrows
\* are the deltas it writes for the path's arrows in their listed order
C18_EdgeOrderIndependence ==
    phase = "computed"
        => /\ crust_scratch =
                 FractionPass(top_crust, neighbor_count, outbound_height_transfer)
           /\ \A i \in Cells :
                 outbound_height_transfer[i] =
                    Mul(Mul(Mul(R(precipitation), R(timestep)), erosiveFactor),
                        Sum([j \in Cells |->
                                IF \E k \in OutboundArrows(i) : arrows[k][2] = j
                                THEN max_scalar(Sub(water_height[i], water_height[j]), Zero)
                                ELSE Zero]))
           /\ crust_delta = ErosionDeltas(PathArrows(Cardinality(Cells)))

\* the arrows are not in their listed order, the middle cell sends part of
\* its sediment to both neighbours
C18_Witness ==
    /\ phase = "computed"
    /\ arrows # PathArrows(Cardinality(Cells))
    /\ arrows[Len(arrows)][1] = 1
    /\ Lt(crust_delta["sediment"][1], Zero)
    /\ Gt(crust_delta["sediment"][0], Zero)
    /\ Gt(crust_delta["sediment"][2], Zero)
    /\ Lt(Mul(crust_scratch["sediment"][1], R(neighbor_count[1])), One)

\* C19: a call of get_erosion leaves displacement, sealevel, timestep, the
\* grid (arrows, neighbor_count) and the reservoirs of top_crust as they were;
\* it writes only crust_delta and its scratch rasters
C19_InputsReadOnly ==
    [][(phase = "idle" /\ phase' = "computed")
          => /\ displacement' = displacement
             /\ sealevel' = sealevel
             /\ timestep' = timestep
             /\ arrows' = arrows
             /\ neighbor_count' = neighbor_count
             /\ top_crust' = top_crust]_vars

\* a call has returned non-zero deltas and the reservoirs still hold their
\* initial contents
C19_Witness ==
    /\ phase = "computed"
    /\ steps = 0
    /\ SomeDeltaNonZero
    /\ \A r \in Reservoirs : \A i \in Cells :
          top_crust[r][i] \in {Zero, One}
    /\ Total(top_crust) = initial_total

\* the cells the segmentation gave to a label, and the cells its dilation and
\* closing reach from there
RegionOf(id) == UNION {passes[p].region : p \in {q \in 1 .. Len(passes) : passes[q].id = id}}
Reach(id) == closing(dilation(RegionOf(id), MorphologyRadius), MorphologyRadius)

\* label plate_ids[j] has been processed and reaches cell c
ProcessedReach(j, c) ==
    /\ j < pp_i
    /\ plate_ids[j] # 0
    /\ c \in Reach(plate_ids[j])

\* C20: during and after the per-label loop, which runs through plate_ids in
\* order, a cell the segmentation left unlabeled holds the label of the first
\* processed label that reaches it, however many labels reaching it have
\* been processed since
C20_FirstLabelWins ==
    pm_pc \in {"postprocessing", "returned"}
        => \A c \in PCells \ PassRegions :
              \A j \in 1 .. Len(plate_ids) :
                  (/\ ProcessedReach(j, c)
                   /\ \A k \in 1 .. (j - 1) : ~ProcessedReach(k, c))
                      => segments[c] = plate_ids[j]

\* both labels have been processed, both reach a cell the segmentation left
\* unlabeled, and the cell holds the one processed first
C20_Witness ==
    /\ pm_pc = "returned"
    /\ \E c \in PCells \ PassRegions :
          \E j, k \in 1 .. Len(plate_ids) :
              /\ j < k
              /\ ProcessedReach(j, c)
              /\ ProcessedReach(k, c)
              /\ segments[c] = plate_ids[j]
              /\ \A m \in 1 .. (j - 1) : ~ProcessedReach(m, c)

\* ------------------------------------------------------------------ claims C21 .. C26
PositiveLabels(field) == {field[c] : c \in PCells} \ {0}

\* C21: while the segmentation runs and in the field it returns, every
\* positive label covers at least min_segment_size cells and there are at most
\* segment_num positive labels; an iteration whose flood-filled region is
\* smaller than min_segment_size leaves the field and the region count as
\* they were
C21_RegionSizeAndCount ==
    /\ []((pm_pc = "segmenting" \/ (pm_pc = "postprocessing" /\ pp_i = 1))
            => /\ \A l \in PositiveLabels(segments) :
                     Cardinality(eq_scalar(segments, l)) >= min_segment_size
               /\ Cardinality(PositiveLabels(segments)) <= segment_num)
    /\ [][(/\ pm_pc = "segmenting"
           /\ seg_iter' = seg_iter + 1
           /\ Cardinality(FloodFill({Seed(segments)}, Seed(segments),
                                    Unlabeled(segments))) < min_segment_size)
             => /\ segments' = segments
                /\ region_count' = region_count]_vars

\* the segmentation has returned segment_num = 2 regions of at least two
\* cells each
C21_Witness ==
    /\ pm_pc = "postprocessing"
    /\ pp_i = 1
    /\ segment_num = 2
    /\ min_segment_size = 2
    /\ Cardinality(PositiveLabels(segments)) = 2

\* one call of get_asthenosphere_pressure or of get_displacement, with or
\* without the optional output raster
InitOutput ==
    /\ ErosionIdle
    /\ PlatesIdle
    /\ output_arg \in {"raster", "undefined"}
    /\ \/ /\ IsostasyIdle
          /\ \E q \in [PCells -> 0 .. MaxDensity] :
                density = [c \in PCells |-> R(q[c])]
          /\ density_arrows \in PlateMeshes
          /\ pressure = IF output_arg = "raster" THEN [c \in PCells |-> Zero] ELSE <<>>
          /\ pressure_pass = 0
          /\ pressure_pc = "called"
          /\ pressure_returned = "none"
       \/ /\ PressureIdle
          /\ \E q \in [InitCells -> 0 .. MaxThickness] :
                thickness = [i \in InitCells |-> R(q[i])]
          /\ \E q \in [InitCells -> 0 .. MaxDensity] :
                density = [i \in InitCells |-> R(q[i])]
          /\ mantleDensity \in 1 .. MaxMantleDensity
          /\ iso_displacement =
                IF output_arg = "raster" THEN [i \in InitCells |-> Zero] ELSE <<>>
          /\ iso_returned = "none"
          /\ iso_pc = "called"

NextOutput ==
    \/ AsthenospherePressureCopy
    \/ AsthenospherePressurePass
    \/ AsthenospherePressureReturn
    \/ GetDisplacement
    \/ DisplacementConsumed

SpecOutput == InitOutput /\ [][NextOutput]_vars

\* C22: a call given its output raster returns that raster, a call without
\* it returns a new raster over the input's grid holding the result; no call
\* ends in an exception for want of the output raster
C22_OptionalOutput ==
    /\ pressure_pc = "returned"
          => /\ output_arg = "raster" => pressure_returned = "pressure argument"
             /\ output_arg = "undefined" => pressure_returned = "new raster"
             /\ DOMAIN pressure = DOMAIN density
    /\ iso_pc # "threw"
    /\ iso_pc = "returned"
          => /\ output_arg = "raster" => iso_returned = "displacement"
             /\ output_arg = "undefined" => iso_returned = "new raster"
             /\ DOMAIN iso_displacement = DOMAIN thickness

\* what the transfer pass takes out of cell i, over its four reservoirs
TotalWithdrawal(i) ==
    Add(Add(Withdrawal("sediment", i), Withdrawal("sedimentary", i)),
        Add(Withdrawal("metamorphic", i), Withdrawal("sial", i)))

\* C23: after get_erosion, a cell with at least one neighbour has sent out,
\* over its four reservoirs and all its outbound arrows, at most its outbound
\* flux candidate
C23_OutflowBounded ==
    phase = "computed"
        => \A i \in Cells :
              neighbor_count[i] >= 1
                  => Leq(TotalWithdrawal(i), outbound_height_transfer[i])

\* ------------------------------------------------------------------ get_weathering
weathering_factor == Norm(18, 100000000)
critical_sediment_thickness == 1

min_scalar(a, s) == IF Lt(s, a) THEN s ELSE a

\* the rock of a cell: sedimentary + metamorphic + sial
Conserved(crust, i) ==
    Add(Add(Add(Zero, crust["sedimentary"][i]), crust["metamorphic"][i]),
        crust["sial"][i])

\* clamp(1 - sediment / critical_sediment_thickness, 0, 1)
BedrockExposure(sediment_i) ==
    min_scalar(max_scalar(Add(Div(sediment_i, R(-critical_sediment_thickness)), One),
                          Zero),
               One)

\* the weathering of a cell before it is limited to the rock the cell holds
RawWeathering(ad_i, dt, sediment_i) ==
    Mul(Mul(ad_i, Mul(Mul(weathering_factor, R(precipitation)), R(dt))),
        BedrockExposure(sediment_i))

\* the weathering of a cell without the limit by the rock it holds
WeatheringUnlimited(ad_i, dt, sediment_i, conserved_i) ==
    max_scalar(RawWeathering(ad_i, dt, sediment_i), Zero)

\* min_field(weathering, conserved), then max_scalar(weathering, 0)
Weathering(ad_i, dt, sediment_i, conserved_i) ==
    max_scalar(min_scalar(RawWeathering(ad_i, dt, sediment_i), conserved_i), Zero)

\* the threshold of lt_scalar(conserved, 0.01)
div_by_zero_threshold == Norm(1, 100)

\* div_field(weathering, conserved), set to 0 where conserved < 0.01
Ratio(weathering_i, conserved_i) ==
    IF Lt(conserved_i, div_by_zero_threshold) THEN Zero
    ELSE Div(weathering_i, conserved_i)

\* the deltas of one cell, after crust_delta.everything is multiplied by -1
WeatheringDelta(crust, ad, dt, r, i) ==
    LET conserved_i == Conserved(crust, i)
        weathering_i == Weathering(ad[i], dt, crust["sediment"][i], conserved_i)
        ratio_i == Ratio(weathering_i, conserved_i)
    IN  IF r = "sediment" THEN Mul(Mul(weathering_i, R(-1)), R(-1))
        ELSE IF r = "sima" THEN Mul(Zero, R(-1))
        ELSE Mul(Mul(crust[r][i], ratio_i), R(-1))

GetWeathering ==
    /\ phase = "idle"
    /\ steps < MaxSteps
    /\ crust_delta' =
          [r \in Reservoirs \cup {"sima"} |->
              [i \in Cells |->
                  WeatheringDelta(top_crust, average_difference, timestep, r, i)]]
    /\ phase' = "computed"
    /\ UNCHANGED <<displacement, sealevel, timestep, arrows, neighbor_count,
                   top_crust, crust_scratch, water_height, outbound_height_transfer,
                   steps, initial_total, scratchpad, average_difference>>
    /\ UNCHANGED <<plate_vars, field_vars>>

\* reservoir values of the initial rasters: binary32 numbers, so that the
\* stored value is the value given; 1/256 and 1/256 + 1/256 lie below the
\* threshold 0.01, MaxQuantity above it
SmallRock == Norm(1, 256)
SedimentQuantities == {Zero, Norm(1, 2), R(MaxQuantity)}
RockQuantities == {Zero, SmallRock, R(MaxQuantity)}

\* no cell holds rock within 1% of the threshold 0.01, so the rounding of
\* the raster storage decides no branch of lt_scalar(conserved, 0.01)
ConservedClearOfThreshold ==
    \A i \in Cells :
        \/ Leq(Conserved(top_crust, i), Mul(div_by_zero_threshold, Norm(99, 100)))
        \/ Geq(Conserved(top_crust, i), Mul(div_by_zero_threshold, Norm(101, 100)))

InitWeathering ==
    /\ PlatesIdle
    /\ FieldsIdle
    /\ displacement = [i \in InitCells |-> MaxDisplacement]
    /\ sealevel = 0
    /\ timestep \in {0, TimestepUnit}
    /\ arrows = PathArrows(NumCells)
    /\ neighbor_count = NeighborCount(arrows)
    /\ average_difference \in [Cells -> {R(-1), Zero, R(MaxDisplacement)}]
    /\ \E sediment \in [Cells -> SedimentQuantities] :
       \E sedimentary \in [Cells -> RockQuantities] :
       \E metamorphic \in [Cells -> {Zero, SmallRock}] :
       \E sial \in [Cells -> {Zero, R(MaxQuantity)}] :
          top_crust = [sediment |-> sediment, sedimentary |-> sedimentary,
                       metamorphic |-> metamorphic, sial |-> sial]
    /\ crust_delta = CrustReset
    /\ crust_scratch = CrustReset
    /\ water_height = ZeroRaster
    /\ outbound_height_transfer = ZeroRaster
    /\ phase = "idle"
    /\ steps = 0
    /\ initial_total = Total(top_crust)
    /\ scratchpad = ScratchpadInit

NextWeathering == GetWeathering \/ ApplyDelta

SpecWeathering == InitWeathering /\ [][NextWeathering]_vars

\* C24: after get_weathering, at every cell the sediment delta is minus the
\* sum of the sedimentary, metamorphic and sial deltas, and the sima delta is 0
C24_WeatheringConserves ==
    phase = "computed"
        => \A i \in Cells :
              /\ crust_delta["sediment"][i] =
                    Neg(Add(Add(crust_delta["sedimentary"][i],
                                crust_delta["metamorphic"][i]),
                            crust_delta["sial"][i]))
              /\ crust_delta["sima"][i] = Zero

\* C25: after get_weathering on non-negative reservoirs, at every cell the
\* sediment delta is >= 0, each rock delta is <= 0 and leaves its reservoir
\* non-negative, and a cell whose sediment is at or above the critical
\* sediment thickness has all deltas 0
C25_NoOverdraw ==
    (phase = "computed" /\ timestep >= 0 /\ NonNegativeCrust)
        => \A i \in Cells :
              /\ Geq(crust_delta["sediment"][i], Zero)
              /\ \A r \in {"sedimentary", "metamorphic", "sial"} :
                    /\ Leq(crust_delta[r][i], Zero)
                    /\ Geq(Add(top_crust[r][i], crust_delta[r][i]), Zero)
              /\ Geq(top_crust["sediment"][i], R(critical_sediment_thickness))
                    => \A r \in DOMAIN crust_delta : crust_delta[r][i] = Zero

\* one cell loses part of each rock reservoir it holds to sediment, another
\* is covered by sediment, holds rock, and is left alone
C25_Witness ==
    /\ phase = "computed"
    /\ \E i \in Cells :
          /\ Gt(crust_delta["sediment"][i], Zero)
          /\ Lt(crust_delta["sedimentary"][i], Zero)
          /\ Lt(crust_delta["sial"][i], Zero)
          /\ Gt(Add(top_crust["sial"][i], crust_delta["sial"][i]), Zero)
    /\ \E i \in Cells :
          /\ Geq(top_crust["sediment"][i], R(critical_sediment_thickness))
          /\ Gt(Conserved(top_crust, i), Zero)
          /\ Gt(average_difference[i], Zero)

\* C26: an iteration of the per-label loop takes no cell away from a non-zero
\* id and adds no cell to the cells labeled 0, and the iteration that processes
\* the id 0 changes no cell
C26_LabelsOnlyGrow ==
    [][(pm_pc = "postprocessing" /\ pp_i' = pp_i + 1)
          => /\ \A l \in PositiveLabels(segments) :
                   eq_scalar(segments, l) \subseteq eq_scalar(segments', l)
             /\ eq_scalar(segments', 0) \subseteq eq_scalar(segments, 0)
             /\ plate_ids[pp_i] = 0 => segments' = segments]_vars

\* the loop has processed the id 0 and then a label that grew, and a second
\* label kept its cells
C26_Witness ==
    /\ pm_pc = "returned"
    /\ Len(plate_ids) = 3
    /\ plate_ids[1] = 0
    /\ \E p \in 1 .. Len(passes) :
          /\ passes[p].region # eq_scalar(segments, passes[p].id)
          /\ passes[p].region \subseteq eq_scalar(segments, passes[p].id)
    /\ eq_scalar(segments, 0) = {}

====
